---- MODULE Spec2Model ----
(***************************************************************************)
(* Model of clevo_fan_control.cpp: the EC port handshake (ec_io_wait,      *)
(* ec_io_do), the duty decision (identify_duty, ec_auto_duty_adjust), the  *)
(* control loop ec_worker and the signal handler ec_on_sigterm.            *)
(***************************************************************************)
EXTENDS Integers, Sequences, FiniteSets, TLC

(***************************************************************************)
(* Bounds of the model.                                                    *)
(***************************************************************************)
MaxTicks == 2
MaxSignals == 2
SettleTicks == 8

(***************************************************************************)
(* Program constants.                                                      *)
(***************************************************************************)
ec_data == 98
ec_sc == 102
ec_reg_size == 256
ec_reg_cpu_temp == 7
ec_reg_gpu_temp == 205
ec_reg_fan_duty == 206
ibf == 1
obf == 0
ec_write_cmd == 153
ec_fan_port == 1
fan_reset == 40
wait_limit == 100

(***************************************************************************)
(* Inputs: what the environment (EC, kernel interface) may hand the code.  *)
(***************************************************************************)
CpuTemps == {45, 53, 90}
GpuTemps == {50}
RawDuties == {0, 255}
Lens == {-1, 16, ec_reg_size}
StatusBytes == {0, 1, 2, 3}
WaitResults == {"ok", "timed_out"}

VARIABLES
    pc,                  \* position of the main flow in ec_worker / ec_main
    global_running_flag, \* the Running Flag
    cpu_temp, gpu_temp, fan_duty, auto_duty_val, next_duty, \* locals of ec_worker
    len,                 \* result of the tick's read()
    io_fd,               \* number of snapshot handles currently open
    ret,                 \* what ec_worker returned
    wio,                 \* the ec_io_do call of the main flow
    h,                   \* the running invocation of ec_on_sigterm, if any
    ticks, signals,      \* ticks started, signals delivered
    ec_duty_raw,         \* last duty byte put on the data port
    commanded,           \* duties ec_worker passed to ec_write_fan_duty
    write_tick,          \* tick of ec_worker's last ec_write_fan_duty call
    h40,                 \* completed duty writes of ec_on_sigterm
    buf,                 \* registers 0x07, 0xCD, 0xCE of the tick's read buffer
    failed,              \* the call whose failure made ec_worker return
    args, status,        \* the command line as ec_main parses it, the exit status
    env,                 \* the EC as a scenario fixes it: temperature, first duty byte
    f_arg, f_res, f_done, \* a pure function applied on its own
    w_flag, w_value, repeat_count, w_reads, w_hits, w_last, w_res \* ec_io_wait

vars == <<pc, global_running_flag, cpu_temp, gpu_temp, fan_duty, auto_duty_val,
          next_duty, len, io_fd, ret, wio, h, ticks, signals, ec_duty_raw,
          commanded, write_tick, h40, buf, failed, args, status, env,
          f_arg, f_res, f_done,
          w_flag, w_value, repeat_count, w_reads, w_hits, w_last, w_res>>

workerVars == <<pc, cpu_temp, gpu_temp, fan_duty, auto_duty_val, next_duty, len,
                io_fd, ret, wio, ticks, commanded, write_tick, buf, failed>>
restVars == <<args, status, env, f_arg, f_res, f_done>>
waitVars == <<w_flag, w_value, repeat_count, w_reads, w_hits, w_last, w_res>>

(***************************************************************************)
(* Pure functions.                                                         *)
(***************************************************************************)
Max(a, b) == IF a >= b THEN a ELSE b

\* the duty rounded to the nearest integer instead of truncated
calculate_fan_duty_rounded(raw_duty) == (raw_duty * 200 + 255) \div 510

\* static_cast<int32_t>(double(raw) / 255.0 * 100.0): truncation; the double
\* arithmetic agrees with the integer quotient for every raw byte 0..255.
calculate_fan_duty(raw_duty) == (raw_duty * 100) \div 255

\* static_cast<uint8_t>(double(duty) / 100.0 * 255.0): truncation; the double
\* arithmetic agrees with the integer quotient for every duty 0..100.
DutyToRaw(duty_percentage) == (duty_percentage * 255) \div 100

\* the two bytes combined the wrong way round
calculate_fan_rpms_swapped(raw_rpm_high, raw_rpm_low) ==
    LET raw_rpm == raw_rpm_high + (raw_rpm_low * 256)
    IN  IF raw_rpm > 0 THEN 2156220 \div raw_rpm ELSE 0

calculate_fan_rpms(raw_rpm_high, raw_rpm_low) ==
    LET raw_rpm == (raw_rpm_high * 256) + raw_rpm_low
    IN  IF raw_rpm > 0 THEN 2156220 \div raw_rpm ELSE 0

allowed_duties == <<0, 16, 30, 40, 65, 90, 100>>

\* the +-1 window applied to level 0 as to every other level
DutyInRangeAll(d, duty) == duty >= d - 1 /\ duty <= d + 1

DutyInRange(d, duty) ==
    LET min_right == IF d # 0 THEN d - 1 ELSE d
        max_right == IF d # 0 THEN d + 1 ELSE d
    IN  duty >= min_right /\ duty <= max_right

identify_duty(duty) ==
    LET hits == {i \in 1..Len(allowed_duties) : DutyInRange(allowed_duties[i], duty)}
    IN  IF hits # {}
        THEN allowed_duties[CHOOSE i \in hits : \A j \in hits : i <= j]
        ELSE duty

ThresholdTarget(temp_max, duty) ==
    IF temp_max >= 85 /\ duty < 65 THEN 65
    ELSE IF temp_max >= 75 /\ duty < 40 THEN 40
    ELSE IF temp_max >= 65 /\ duty < 30 THEN 30
    ELSE IF temp_max >= 55 /\ duty < 17 THEN 17
    ELSE IF temp_max <= 50 THEN 0
    ELSE IF temp_max <= 60 /\ duty >= 17 THEN 17
    ELSE IF temp_max <= 70 /\ duty >= 30 THEN 30
    ELSE IF temp_max <= 80 /\ duty >= 40 THEN 40
    ELSE IF temp_max <= 85 /\ duty >= 65 THEN 65
    ELSE -1

\* smoothing that forgets the duty it starts from
SmoothFromZero(new_duty, duty, fd) ==
    IF new_duty > fd
    THEN LET new_duty_adj == (new_duty - fd) \div 2
         IN  IF new_duty - new_duty_adj > 2 THEN new_duty_adj ELSE new_duty
    ELSE new_duty

\* smoothing that steps past the target / no smoothing at all
SmoothOvershoot(new_duty, duty, fd) ==
    IF new_duty > fd THEN new_duty + ((new_duty - fd) \div 2) ELSE new_duty

SmoothOff(new_duty, duty, fd) == new_duty

Smooth(new_duty, duty, fd) ==
    IF new_duty > fd
    THEN LET new_duty_adj == duty + ((new_duty - fd) \div 2)
         IN  IF new_duty - new_duty_adj > 2 THEN new_duty_adj ELSE new_duty
    ELSE new_duty

ec_auto_duty_adjust(ct, gt, fd) ==
    LET temp_max == Max(ct, gt)
        duty == identify_duty(fd)
    IN  Smooth(ThresholdTarget(temp_max, duty), duty, fd)

\* the write condition without its test for the -1 sentinel
WriteCondNoSentinel(nd, adv, fd) == nd # adv \/ (nd = 0 /\ fd # 0)

\* the write condition without its fan-off case
WriteCondNoEdge(nd, adv, fd) == nd # -1 /\ nd # adv

\* the condition under which ec_worker writes the tick's next_duty
WriteCond(nd, adv, fd) == (nd # -1 /\ nd # adv) \/ (nd = 0 /\ fd # 0)

(***************************************************************************)
(* ec_io_do as a record: the step it is at, the byte to write, the events  *)
(* of the transaction so far and its result.                               *)
(***************************************************************************)
WaitEv(r) == [wait |-> r]
OutEv(port, byte) == [port |-> port, byte |-> byte]

IoIdle == [step |-> "idle", value |-> 0, ev |-> <<>>, res |-> "none"]
IoStart(value) == [step |-> "wait1", value |-> value, ev |-> <<>>, res |-> "none"]

\* ec_write_fan_duty: the range check, then ec_io_do(0x99, 0x01, byte)
ec_write_fan_duty(duty_percentage) ==
    IF duty_percentage < 0 \/ duty_percentage > 100
    THEN [step |-> "ret", value |-> 0, ev |-> <<>>, res |-> "invalid_argument"]
    ELSE IoStart(DutyToRaw(duty_percentage))

IoWaiting(io) == io.step \in {"wait1", "wait2", "wait3", "wait4"}
IoWriting(io) == io.step \in {"cmd", "port", "val"}

\* ec_io_do going on to the next byte whatever the wait returned
IoWaitNoFail(io, r) ==
    LET after == CASE io.step = "wait1" -> "cmd"
                   [] io.step = "wait2" -> "port"
                   [] io.step = "wait3" -> "val"
                   [] OTHER -> "ret"
    IN  [io EXCEPT !.step = after,
                   !.ev = Append(@, WaitEv(r)),
                   !.res = IF io.step = "wait4" THEN r ELSE @]

\* one ec_io_wait of ec_io_do, with result r
IoWait(io, r) ==
    LET after == CASE io.step = "wait1" -> "cmd"
                   [] io.step = "wait2" -> "port"
                   [] io.step = "wait3" -> "val"
                   [] OTHER -> "ret"
    IN  IF r = "ok"
        THEN [io EXCEPT !.step = after,
                        !.ev = Append(@, WaitEv(r)),
                        !.res = IF io.step = "wait4" THEN "ok" ELSE @]
        ELSE [io EXCEPT !.step = "ret",
                        !.ev = Append(@, WaitEv(r)),
                        !.res = r]

\* one outb of ec_io_do
IoOut(io) ==
    CASE io.step = "cmd" ->
            [io EXCEPT !.step = "wait2", !.ev = Append(@, OutEv(ec_sc, ec_write_cmd))]
      [] io.step = "port" ->
            [io EXCEPT !.step = "wait3", !.ev = Append(@, OutEv(ec_data, ec_fan_port))]
      [] OTHER ->
            [io EXCEPT !.step = "wait4", !.ev = Append(@, OutEv(ec_data, io.value))]

(***************************************************************************)
(* Initial state: ec_worker is entered with the handlers installed.        *)
(***************************************************************************)
HandlerIdle == [pc |-> "idle", io |-> IoIdle]

WaitIdle ==
    /\ w_flag = 0 /\ w_value = 0 /\ repeat_count = 0 /\ w_reads = 0
    /\ w_hits = 0 /\ w_last = FALSE /\ w_res = "idle"

\* everything but the position of the main flow
StartState ==
    /\ global_running_flag = TRUE
    /\ cpu_temp = 0 /\ gpu_temp = 0 /\ fan_duty = 0 /\ auto_duty_val = -1
    /\ next_duty = -1
    /\ len = 0
    /\ io_fd = 0
    /\ ret = "none"
    /\ wio = IoIdle
    /\ h = HandlerIdle
    /\ ticks = 0 /\ signals = 0
    /\ ec_duty_raw = 0
    /\ commanded = <<>>
    /\ write_tick = 0
    /\ h40 = 0
    /\ buf = <<0, 0, 0>>
    /\ failed = "none"

MainInit == pc = "while" /\ StartState

FnIdle == f_arg = <<>> /\ f_res = 0 /\ f_done = FALSE

EnvIdle == env = [temp |-> 0, raw0 |-> 0]

\* loop mode: ec_main has parsed -1 and called ec_worker
LoopArgs == args = [kind |-> "num", val |-> -1, init |-> TRUE] /\ status = "none"

Init == MainInit /\ WaitIdle /\ FnIdle /\ EnvIdle /\ LoopArgs

(***************************************************************************)
(* ec_worker: the main flow runs only while no handler is running.         *)
(***************************************************************************)
MainRuns == h.pc = "idle"

\* the loop condition as it reads the flag, and a loop that never reads it
LoopContinuesBlind == TRUE

LoopContinues == global_running_flag

WhileCheck(maxTicks) ==
    /\ MainRuns /\ pc = "while"
    /\ IF LoopContinues
       THEN /\ ticks < maxTicks
            /\ pc' = "open"
            /\ ticks' = ticks + 1
            /\ ret' = ret
       ELSE /\ pc' = "returned"
            /\ ret' = "ok"
            /\ ticks' = ticks
    /\ UNCHANGED <<global_running_flag, cpu_temp, gpu_temp, fan_duty, auto_duty_val,
                   next_duty, len, io_fd, wio, h, signals, ec_duty_raw,
                   commanded, write_tick, h40, buf, failed,
                   waitVars, restVars>>

\* where ec_worker goes after open(), and an open() failure that only skips the tick
OpenTargetSoft(ok) == IF ok THEN "read" ELSE "sleep"

OpenTarget(ok) == IF ok THEN "read" ELSE "returned"

Open(oks) ==
    /\ MainRuns /\ pc = "open"
    /\ \E ok \in oks :
          IF ok
          THEN /\ io_fd' = io_fd + 1
               /\ pc' = OpenTarget(ok)
               /\ ret' = ret
               /\ failed' = failed
          ELSE /\ io_fd' = io_fd
               /\ pc' = OpenTarget(ok)
               /\ ret' = "err"
               /\ failed' = "open"
    /\ UNCHANGED <<global_running_flag, cpu_temp, gpu_temp, fan_duty, auto_duty_val,
                   next_duty, len, wio, h, ticks, signals, ec_duty_raw,
                   commanded, write_tick, h40, buf,
                   waitVars, restVars>>

\* case -1 of the switch on read()'s result, and a switch without that case
ReadFailsNever(n) == FALSE

ReadFails(n) == n = -1

\* case 0x100 of the switch, and a switch that takes any read as a full one
FullReadAny(n) == n >= 0

FullRead(n) == n = ec_reg_size

\* what read() leaves of a register in the zeroed buffer: its byte when the
\* read reached it
Filled(n, reg, byte) == IF n > reg THEN byte ELSE 0

\* read() and the switch on its result; snaps is the set of snapshots
\* <<length, cpu byte, gpu byte, duty byte>> the interface may return
Read(snaps) ==
    /\ MainRuns /\ pc = "read"
    /\ \E s \in snaps :
          /\ len' = s[1]
          /\ buf' = <<Filled(s[1], ec_reg_cpu_temp, s[2]),
                      Filled(s[1], ec_reg_gpu_temp, s[3]),
                      Filled(s[1], ec_reg_fan_duty, s[4])>>
          /\ IF ReadFails(s[1])
             THEN /\ pc' = "returned"
                  /\ ret' = "err"
                  /\ failed' = "read"
                  /\ UNCHANGED <<cpu_temp, gpu_temp, fan_duty>>
             ELSE /\ pc' = "close"
                  /\ ret' = ret
                  /\ failed' = failed
                  /\ IF FullRead(s[1])
                     THEN /\ cpu_temp' = Filled(s[1], ec_reg_cpu_temp, s[2])
                          /\ gpu_temp' = Filled(s[1], ec_reg_gpu_temp, s[3])
                          /\ fan_duty' = calculate_fan_duty(Filled(s[1], ec_reg_fan_duty, s[4]))
                     ELSE UNCHANGED <<cpu_temp, gpu_temp, fan_duty>>
    /\ UNCHANGED <<global_running_flag, auto_duty_val, next_duty, io_fd, wio, h,
                   ticks, signals, ec_duty_raw, commanded, write_tick, h40, waitVars, restVars>>

Close ==
    /\ MainRuns /\ pc = "close"
    /\ io_fd' = io_fd - 1
    /\ pc' = "adjust"
    /\ UNCHANGED <<global_running_flag, cpu_temp, gpu_temp, fan_duty, auto_duty_val,
                   next_duty, len, ret, wio, h, ticks, signals, ec_duty_raw,
                   commanded, write_tick, h40, buf, failed,
                   waitVars, restVars>>

Adjust ==
    /\ MainRuns /\ pc = "adjust"
    /\ next_duty' = ec_auto_duty_adjust(cpu_temp, gpu_temp, fan_duty)
    /\ pc' = "decide"
    /\ UNCHANGED <<global_running_flag, cpu_temp, gpu_temp, fan_duty, auto_duty_val,
                   len, io_fd, ret, wio, h, ticks, signals, ec_duty_raw,
                   commanded, write_tick, h40, buf, failed,
                   waitVars, restVars>>

Decide ==
    /\ MainRuns /\ pc = "decide"
    /\ pc' = IF WriteCond(next_duty, auto_duty_val, fan_duty) THEN "write" ELSE "sleep"
    /\ UNCHANGED <<global_running_flag, cpu_temp, gpu_temp, fan_duty, auto_duty_val,
                   next_duty, len, io_fd, ret, wio, h, ticks, signals,
                   ec_duty_raw, commanded, write_tick, h40, buf, failed,
                   waitVars, restVars>>

WriteFanDuty ==
    /\ MainRuns /\ pc = "write"
    /\ wio' = ec_write_fan_duty(next_duty)
    /\ commanded' = Append(commanded, next_duty)
    /\ write_tick' = ticks
    /\ pc' = "io"
    /\ UNCHANGED <<global_running_flag, cpu_temp, gpu_temp, fan_duty, auto_duty_val,
                   next_duty, len, io_fd, ret, h, ticks, signals, ec_duty_raw,
                   h40, buf, failed,
                   waitVars, restVars>>

WorkerIoWait(results) ==
    /\ MainRuns /\ pc = "io" /\ IoWaiting(wio)
    /\ \E r \in results : wio' = IoWait(wio, r)
    /\ UNCHANGED <<pc, global_running_flag, cpu_temp, gpu_temp, fan_duty,
                   auto_duty_val, next_duty, len, io_fd, ret, h, ticks, signals,
                   ec_duty_raw, commanded, write_tick, h40, buf, failed,
                   waitVars, restVars>>

WorkerIoOut ==
    /\ MainRuns /\ pc = "io" /\ IoWriting(wio)
    /\ wio' = IoOut(wio)
    /\ ec_duty_raw' = IF wio.step = "val" THEN wio.value ELSE ec_duty_raw
    /\ UNCHANGED <<pc, global_running_flag, cpu_temp, gpu_temp, fan_duty,
                   auto_duty_val, next_duty, len, io_fd, ret, h, ticks, signals,
                   commanded, write_tick, h40, buf, failed,
                   waitVars, restVars>>

\* ec_write_fan_duty has returned (its result is dropped): auto_duty_val = next_duty
Assign ==
    /\ MainRuns /\ pc = "io" /\ wio.step = "ret"
    /\ auto_duty_val' = next_duty
    /\ wio' = IoIdle
    /\ pc' = "sleep"
    /\ UNCHANGED <<global_running_flag, cpu_temp, gpu_temp, fan_duty, next_duty, len,
                   io_fd, ret, h, ticks, signals, ec_duty_raw, commanded,
                   write_tick, h40, buf, failed,
                   waitVars, restVars>>

\* sleep_for(2 s); the locals of the loop body (buf, len, next_duty) end with it
Sleep ==
    /\ MainRuns /\ pc = "sleep"
    /\ pc' = "while"
    /\ len' = 0
    /\ buf' = <<0, 0, 0>>
    /\ next_duty' = -1
    /\ UNCHANGED <<global_running_flag, cpu_temp, gpu_temp, fan_duty, auto_duty_val,
                   io_fd, ret, wio, h, ticks, signals,
                   ec_duty_raw, commanded, write_tick, h40, failed,
                   waitVars, restVars>>

\* main's exit status for the error_code ec_main returns, and a main that
\* drops it
ExitStatusBlind(r) == "success"

ExitStatus(r) == IF r = "ok" THEN "success" ELSE "failure"

\* ec_main and main return after ec_worker: the process exits
Exit ==
    /\ MainRuns /\ pc = "returned"
    /\ pc' = "exited"
    /\ status' = ExitStatus(ret)
    /\ UNCHANGED <<global_running_flag, cpu_temp, gpu_temp, fan_duty, auto_duty_val,
                   next_duty, len, io_fd, ret, wio, h, ticks, signals,
                   ec_duty_raw, commanded, write_tick, h40, buf, failed,
                   waitVars, args, env, f_arg, f_res, f_done>>

(***************************************************************************)
(* ec_on_sigterm.  std::signal installs it for eight signals; the model    *)
(* delivers a signal between two steps of ec_worker and runs the handler   *)
(* to its return before ec_worker goes on (one invocation at a time).      *)
(***************************************************************************)
Signal ==
    /\ pc # "exited"
    /\ h.pc = "idle"
    /\ signals < MaxSignals
    /\ signals' = signals + 1
    /\ h' = [pc |-> "entry", io |-> IoIdle]
    /\ UNCHANGED <<global_running_flag, workerVars, ec_duty_raw, h40, waitVars, restVars>>

\* global_running_flag = false; set_fan(fan_reset) calls ec_write_fan_duty
HandlerEntry ==
    /\ h.pc = "entry"
    /\ global_running_flag' = FALSE
    /\ h' = [pc |-> "io", io |-> ec_write_fan_duty(fan_reset)]
    /\ UNCHANGED <<workerVars, signals, ec_duty_raw, h40, waitVars, restVars>>

HandlerIoWait ==
    /\ h.pc = "io" /\ IoWaiting(h.io)
    /\ \E r \in WaitResults : h' = [h EXCEPT !.io = IoWait(h.io, r)]
    /\ UNCHANGED <<global_running_flag, workerVars, signals, ec_duty_raw, h40, waitVars, restVars>>

HandlerIoOut ==
    /\ h.pc = "io" /\ IoWriting(h.io)
    /\ h' = [h EXCEPT !.io = IoOut(h.io)]
    /\ ec_duty_raw' = IF h.io.step = "val" THEN h.io.value ELSE ec_duty_raw
    /\ UNCHANGED <<global_running_flag, workerVars, signals, h40, waitVars, restVars>>

\* set_fan after ec_write_fan_duty: an error returns at once, success goes on to dump_fan
HandlerSetFan ==
    /\ h.pc = "io" /\ h.io.step = "ret"
    /\ IF h.io.res = "ok"
       THEN /\ h' = [h EXCEPT !.pc = "dump"]
            /\ h40' = h40 + 1
       ELSE /\ h' = HandlerIdle
            /\ h40' = h40
    /\ UNCHANGED <<global_running_flag, workerVars, signals, ec_duty_raw, waitVars, restVars>>

\* dump_fan (five ec_io_read calls), then set_fan and the handler return
HandlerDump ==
    /\ h.pc = "dump"
    /\ h' = HandlerIdle
    /\ UNCHANGED <<global_running_flag, workerVars, signals, ec_duty_raw, h40, waitVars, restVars>>

(***************************************************************************)
(* The loop-mode specification.                                            *)
(***************************************************************************)
Snapshots ==
    {<<l, c, g, d>> : l \in Lens, c \in CpuTemps, g \in GpuTemps,
                      d \in RawDuties \cup {ec_duty_raw}}

WorkerNext ==
    \/ WhileCheck(MaxTicks)
    \/ Open(BOOLEAN)
    \/ Read(Snapshots)
    \/ Close
    \/ Adjust
    \/ Decide
    \/ WriteFanDuty
    \/ WorkerIoWait(WaitResults)
    \/ WorkerIoOut
    \/ Assign
    \/ Sleep
    \/ Exit

HandlerNext ==
    \/ HandlerEntry
    \/ HandlerIoWait
    \/ HandlerIoOut
    \/ HandlerSetFan
    \/ HandlerDump

Next == WorkerNext \/ Signal \/ HandlerNext

Spec == Init /\ [][Next]_vars

FairSpec == Spec /\ WF_vars(WorkerNext) /\ WF_vars(HandlerNext)

(***************************************************************************)
(* ec_io_wait on its own: one action per pass of its while (true) loop.    *)
(***************************************************************************)
StatusBit(data, flag) == (data \div (2 ^ flag)) % 2

\* the retry test, and the same test off by one
WaitExpiredLate(count) == count > wait_limit

WaitExpired(count) == count >= wait_limit

WaitInit ==
    /\ MainInit /\ FnIdle /\ EnvIdle /\ LoopArgs
    /\ w_flag \in {ibf, obf}
    /\ w_value \in {0, 1}
    /\ repeat_count = 0 /\ w_reads = 0 /\ w_hits = 0 /\ w_last = FALSE
    /\ w_res = "running"

\* inb(port); break on a match, else count and time out or sleep and go round
WaitRead ==
    /\ w_res = "running"
    /\ \E data \in StatusBytes :
          /\ w_reads' = w_reads + 1
          /\ IF StatusBit(data, w_flag) = w_value
             THEN /\ w_res' = "ok"
                  /\ w_hits' = w_hits + 1
                  /\ w_last' = TRUE
                  /\ repeat_count' = repeat_count
             ELSE /\ repeat_count' = repeat_count + 1
                  /\ w_res' = IF WaitExpired(repeat_count + 1) THEN "timed_out"
                                                               ELSE "running"
                  /\ w_hits' = w_hits
                  /\ w_last' = FALSE
    /\ UNCHANGED <<global_running_flag, workerVars, h, signals, ec_duty_raw, h40,
                   w_flag, w_value, restVars>>

WaitNext == WaitRead

WaitSpec == WaitInit /\ [][WaitNext]_vars

(***************************************************************************)
(* The rising-temperature scenario: every snapshot is 256 bytes, its duty  *)
(* register holds the byte of the loop's last write, every wait succeeds   *)
(* and no signal arrives.                                                  *)
(***************************************************************************)
RampTemps == <<50, 60, 70, 80, 90>>
RampOther == {0, 10}

RampSnapshots ==
    LET t == RampTemps[ticks]
    IN  {<<ec_reg_size, t - a, t - b, ec_duty_raw>> :
            <<a, b>> \in {x \in RampOther \X RampOther : x[1] = 0 \/ x[2] = 0}}

RampNext ==
    \/ WhileCheck(Len(RampTemps))
    \/ Open({TRUE})
    \/ Read(RampSnapshots)
    \/ Close
    \/ Adjust
    \/ Decide
    \/ WriteFanDuty
    \/ WorkerIoWait({"ok"})
    \/ WorkerIoOut
    \/ Assign
    \/ Sleep

RampSpec == Init /\ [][RampNext]_vars

RampDone == ticks = Len(RampTemps) /\ pc = "while"

\* the values of one EC register
Bytes == 0..255

(***************************************************************************)
(* The constant-temperature scenario: every snapshot is 256 bytes with the *)
(* same temperature, its duty register holds the byte found at the start   *)
(* until the loop writes and the byte of the loop's last write after that, *)
(* every wait succeeds and no signal arrives.                              *)
(***************************************************************************)
SettleTemps == {45, 50, 53, 55, 60, 63, 65, 70, 73, 75, 80, 83, 85, 86, 90}

SettleInit ==
    /\ MainInit /\ WaitIdle /\ FnIdle /\ LoopArgs
    /\ env \in [temp : SettleTemps, raw0 : Bytes]

SettleSnapshots ==
    {<<ec_reg_size, env.temp, 0,
       IF commanded = <<>> THEN env.raw0 ELSE ec_duty_raw>>}

SettleNext ==
    \/ WhileCheck(SettleTicks)
    \/ Open({TRUE})
    \/ Read(SettleSnapshots)
    \/ Close
    \/ Adjust
    \/ Decide
    \/ WriteFanDuty
    \/ WorkerIoWait({"ok"})
    \/ WorkerIoOut
    \/ Assign
    \/ Sleep

SettleSpec == SettleInit /\ [][SettleNext]_vars

\* the last tick of the scenario has made its decision and its write, if any
SettleEnd == ticks = SettleTicks /\ pc = "sleep"

\* the duty the first snapshot shows
InitialDuty == calculate_fan_duty(env.raw0)

(***************************************************************************)
(* ec_main from its entry: ec_init, the argument checks, and the one-shot  *)
(* mode set_fan(val).  Loop mode ends here at the call of ec_worker, which *)
(* the loop-mode specification starts from.  No handler is installed       *)
(* outside loop mode.                                                      *)
(***************************************************************************)
ArgKinds == {"none", "help", "num", "numtail", "junk", "range"}
ArgVals == -3..102

\* from_chars sets val for digits with or without a tail, and fails on
\* text without digits ("junk") or a number too large for int32 ("range")
ParseFails(a) == a.kind \in {"junk", "range"}

\* the check err || val < -1 || val > 100
ArgRejected(a) == ParseFails(a) \/ a.val < -1 \/ a.val > 100

\* return err; on the rejected argument: err is the parse error, which is
\* empty when the number parsed and was only out of range
RejectedReturn(a) == IF ParseFails(a) THEN "err" ELSE "ok"

MainArgs ==
    {a \in [kind : ArgKinds, val : ArgVals, init : BOOLEAN] :
        a.kind \notin {"num", "numtail"} => a.val = 0}

EcMainInit ==
    /\ pc = "main" /\ StartState /\ WaitIdle /\ FnIdle /\ EnvIdle
    /\ args \in MainArgs
    /\ status = "none"

EcMain ==
    /\ pc = "main"
    /\ IF ~args.init
       THEN pc' = "returned" /\ ret' = "err" /\ wio' = wio
       ELSE IF args.kind \in {"none", "help"}
       THEN pc' = "dump" /\ ret' = ret /\ wio' = wio
       ELSE IF ArgRejected(args)
       THEN pc' = "returned" /\ ret' = RejectedReturn(args) /\ wio' = wio
       ELSE IF args.val = -1
       THEN pc' = "while" /\ ret' = ret /\ wio' = wio
       ELSE pc' = "setfan" /\ ret' = ret /\ wio' = ec_write_fan_duty(args.val)
    /\ UNCHANGED <<global_running_flag, cpu_temp, gpu_temp, fan_duty, auto_duty_val,
                   next_duty, len, io_fd, h, ticks, signals, ec_duty_raw,
                   commanded, write_tick, h40, buf, failed,
                   waitVars, restVars>>

SetFanIoWait ==
    /\ pc = "setfan" /\ IoWaiting(wio)
    /\ \E r \in WaitResults : wio' = IoWait(wio, r)
    /\ UNCHANGED <<pc, global_running_flag, cpu_temp, gpu_temp, fan_duty,
                   auto_duty_val, next_duty, len, io_fd, ret, h, ticks, signals,
                   ec_duty_raw, commanded, write_tick, h40, buf, failed,
                   waitVars, restVars>>

SetFanIoOut ==
    /\ pc = "setfan" /\ IoWriting(wio)
    /\ wio' = IoOut(wio)
    /\ ec_duty_raw' = IF wio.step = "val" THEN wio.value ELSE ec_duty_raw
    /\ UNCHANGED <<pc, global_running_flag, cpu_temp, gpu_temp, fan_duty,
                   auto_duty_val, next_duty, len, io_fd, ret, h, ticks, signals,
                   commanded, write_tick, h40, buf, failed,
                   waitVars, restVars>>

\* set_fan after ec_write_fan_duty: an error is returned to main, success
\* goes on to dump_fan
SetFanReturn ==
    /\ pc = "setfan" /\ wio.step = "ret"
    /\ IF wio.res = "ok"
       THEN pc' = "dump" /\ ret' = ret
       ELSE pc' = "returned" /\ ret' = "err"
    /\ UNCHANGED <<global_running_flag, cpu_temp, gpu_temp, fan_duty, auto_duty_val,
                   next_duty, len, io_fd, wio, h, ticks, signals, ec_duty_raw,
                   commanded, write_tick, h40, buf, failed,
                   waitVars, restVars>>

\* dump_fan of the main flow (reads only), then ec_main returns no error
MainDump ==
    /\ pc = "dump"
    /\ pc' = "returned"
    /\ ret' = "ok"
    /\ UNCHANGED <<global_running_flag, cpu_temp, gpu_temp, fan_duty, auto_duty_val,
                   next_duty, len, io_fd, wio, h, ticks, signals, ec_duty_raw,
                   commanded, write_tick, h40, buf, failed,
                   waitVars, restVars>>

EcMainNext ==
    \/ EcMain
    \/ SetFanIoWait
    \/ SetFanIoOut
    \/ SetFanReturn
    \/ MainDump
    \/ Exit

MainSpec == EcMainInit /\ [][EcMainNext]_vars

(***************************************************************************)
(* The pure functions on their own: the argument is drawn in the initial   *)
(* state and one action applies the function to it.                        *)
(***************************************************************************)
IdentInputs == -1..101
AdjustGpuTemps == {0, 60, 90}
Duties == 0..100

FnInit(inputs) ==
    /\ MainInit /\ WaitIdle /\ EnvIdle /\ LoopArgs
    /\ f_arg \in inputs
    /\ f_res = 0
    /\ f_done = FALSE

FnApply(value) ==
    /\ ~f_done
    /\ f_res' = value
    /\ f_done' = TRUE
    /\ UNCHANGED <<global_running_flag, workerVars, h, signals, ec_duty_raw, h40,
                   waitVars, args, status, env, f_arg>>

ApplyIdentify == FnApply(identify_duty(f_arg[1]))
IdentSpec == FnInit({<<x>> : x \in IdentInputs}) /\ [][ApplyIdentify]_vars

ApplyAdjust == FnApply(ec_auto_duty_adjust(f_arg[1], f_arg[2], f_arg[3]))
AdjustSpec ==
    FnInit({<<c, g, d>> : c \in Bytes, g \in AdjustGpuTemps, d \in Duties})
        /\ [][ApplyAdjust]_vars

ApplyDuty == FnApply(calculate_fan_duty(f_arg[1]))
DutySpec == FnInit({<<b>> : b \in Bytes}) /\ [][ApplyDuty]_vars

ApplyRpm == FnApply(calculate_fan_rpms(f_arg[1], f_arg[2]))
RpmSpec == FnInit({<<hi, lo>> : hi \in Bytes, lo \in Bytes}) /\ [][ApplyRpm]_vars

(***************************************************************************)
(* Properties.                                                             *)
(***************************************************************************)
Returned == pc \in {"returned", "exited"}
SafeRaw == DutyToRaw(fan_reset)
CanonicalWritten == {0, 16, 17, 30, 40, 65, 90, 100}
TableTargets == {0, 17, 30, 40, 65}
SmoothedValues == 8..62
NonDecreasing(q) == \A i \in 1..Len(q) : \A j \in i..Len(q) : q[i] <= q[j]

\* C1: in loop mode, whenever signals were delivered (any number, at any
\* point of the loop), the run holds exactly one completed EC write of duty
\* 40 by the shutdown handler when the process exits.
C1_ExactlyOneSafeWrite == (pc = "exited" /\ signals > 0) => h40 = 1

\* C2: once the shutdown handler has completed its write of duty 40, the
\* last duty byte put on the EC when ec_worker has returned is that of 40.
C2_LastDutyIsSafe == (Returned /\ h40 > 0 /\ h.pc = "idle") => ec_duty_raw = SafeRaw

\* C3: with the Running Flag cleared no new tick starts; a loop head reached
\* with the flag cleared returns success; and once the flag is cleared
\* ec_worker eventually returns.
C3_StopsAfterFlag ==
    /\ [][~global_running_flag => ticks' = ticks]_vars
    /\ [][(pc = "while" /\ ~global_running_flag /\ pc' # pc)
            => (pc' = "returned" /\ ret' = "ok")]_vars
    /\ [](Returned /\ ret = "ok" => ~global_running_flag)
    /\ (~global_running_flag ~> Returned)

\* C3 witness: the flag was cleared during a tick that went on to write, and
\* ec_worker has returned success.
C3_Witness ==
    /\ ~global_running_flag /\ pc = "returned" /\ ret = "ok"
    /\ ticks > 0 /\ write_tick = ticks

\* C4: ec_io_wait reads the status port at most 100 times; it goes on only
\* while no read matched and fewer than 100 were made; it returns success at
\* the first matching read and timed_out exactly when 100 reads did not match.
C4_WaitBounded ==
    /\ w_reads <= wait_limit
    /\ w_res = "running" => (w_reads < wait_limit /\ w_hits = 0)
    /\ w_res = "ok" => (w_hits = 1 /\ w_last)
    /\ w_res = "timed_out" <=> (w_reads = wait_limit /\ w_hits = 0 /\ ~w_last)

\* C4 witness: a wait that timed out after its 100th read.
C4_Witness == w_res = "timed_out" /\ w_reads = wait_limit /\ repeat_count = wait_limit

\* the events of an ec_io_do that ran to its end without a timeout
IoPattern(v) ==
    <<WaitEv("ok"), OutEv(ec_sc, ec_write_cmd), WaitEv("ok"), OutEv(ec_data, ec_fan_port),
      WaitEv("ok"), OutEv(ec_data, v), WaitEv("ok")>>

IoWellFormed(io) ==
    LET n == Len(io.ev)
        full == IoPattern(io.value)
    IN  /\ n <= Len(full)
        /\ \/ /\ io.ev = SubSeq(full, 1, n)
              /\ io.res = "ok" <=> n = Len(full)
              /\ io.res \in {"ok", "none", "invalid_argument"}
           \/ /\ n % 2 = 1
              /\ SubSeq(io.ev, 1, n - 1) = SubSeq(full, 1, n - 1)
              /\ io.ev[n] = WaitEv("timed_out")
              /\ io.res = "timed_out"
              /\ io.step = "ret"

\* C5: every ec_io_do writes command byte, register address and data byte
\* in that order, each right after a wait that succeeded; a wait that times
\* out ends the call with that timeout and no further byte; success is
\* returned only after all four waits succeeded.
C5_FailFastOrdered == IoWellFormed(wio) /\ IoWellFormed(h.io)

\* C5 witness: the loop's ec_io_do timed out at its third wait, after the
\* command byte and the register address.
C5_Witness == wio.step = "ret" /\ wio.res = "timed_out" /\ Len(wio.ev) = 5

\* C6: in a tick in which ec_auto_duty_adjust returned -1, the loop issues
\* no EC write and leaves auto_duty_val as it was.
C6_NoChangeOnMinusOne ==
    /\ []((pc \in {"decide", "sleep"} /\ next_duty = -1) => write_tick < ticks)
    /\ [][(pc \in {"decide", "sleep"} /\ next_duty = -1)
            => /\ auto_duty_val' = auto_duty_val
               /\ commanded' = commanded
               /\ wio' = wio
               /\ pc' \in {"decide", "sleep", "while"}]_vars

\* C6 witness: a tick that read a full snapshot, got -1 and reached its
\* sleep with an earlier tick's auto_duty_val still in place.
C6_Witness ==
    /\ pc = "sleep" /\ next_duty = -1 /\ len = ec_reg_size
    /\ auto_duty_val # -1 /\ write_tick < ticks

\* C7 as claimed: every duty the loop passes to the EC write path is one of
\* 0, 16, 17, 30, 40, 65, 90, 100.
C7_CanonicalOnly == \A i \in 1..Len(commanded) : commanded[i] \in CanonicalWritten

\* C7 as amended: every duty the loop passes to the EC write path is one of
\* the table's targets 0, 17, 30, 40, 65 or a smoothed value of an
\* escalation, an integer in 8..62.
C7_TargetsOrSmoothed ==
    \A i \in 1..Len(commanded) : commanded[i] \in TableTargets \cup SmoothedValues

\* C7 witness: the loop passed a smoothed value to the write path.
C7_Witness == \E i \in 1..Len(commanded) : commanded[i] \notin CanonicalWritten

\* C8 as claimed: over the ticks 50, 60, 70, 80, 90 from duty 0 the
\* commanded duties never decrease and the last one is 65.
C8_RampEndsAt65 ==
    RampDone => (NonDecreasing(commanded) /\ commanded # <<>>
                 /\ commanded[Len(commanded)] = 65)

\* C8 as amended: over the ticks 50, 60, 70, 80, 90 from duty 0 the
\* commanded duties never decrease and the last one is 45 (the loop commands
\* 0, 8, 18, 27, 45).
C8_RampEndsAt45 ==
    /\ NonDecreasing(commanded)
    /\ RampDone => commanded = <<0, 8, 18, 27, 45>>

\* C8 witness: the fifth tick of the scenario has ended.
C8_Witness == RampDone /\ Len(commanded) = Len(RampTemps)

\* C9 as claimed: a read() of -1 does not end the loop.
C9_ReadErrorSoft == len = -1 => ~Returned

\* C9 as amended: a read() of -1 ends the loop: ec_worker returns an error
\* in that tick, the loop issues no EC write in it and no later tick runs.
C9_ReadErrorFatal ==
    len = -1 => (Returned /\ ret = "err" /\ write_tick < ticks /\ wio = IoIdle)

\* C9 witness: the read of the second tick failed.
C9_Witness == len = -1 /\ ticks > 1 /\ pc = "returned"

\* C10: at most one snapshot handle is open at any time and none is open
\* when ec_worker has returned.
C10_NoLeak == io_fd <= 1 /\ (Returned => io_fd = 0)

InTickAfterRead == pc \in {"close", "adjust", "decide", "write", "io", "sleep"}

\* C11: after a read of exactly 256 bytes cpu_temp, gpu_temp and fan_duty
\* are those of registers 0x07, 0xCD and 0xCE of that read for the rest of
\* the tick; a read of any other non-error length leaves all three as they
\* were.
C11_SnapshotSize ==
    /\ []((InTickAfterRead /\ len = ec_reg_size)
            => /\ cpu_temp = buf[1]
               /\ gpu_temp = buf[2]
               /\ fan_duty = calculate_fan_duty(buf[3]))
    /\ [][(pc = "read" /\ pc' = "close" /\ len' # ec_reg_size)
            => UNCHANGED <<cpu_temp, gpu_temp, fan_duty>>]_vars

\* C11 witness: the second tick read a short buffer that holds a CPU byte,
\* and cpu_temp is still that of the first tick.
C11_Witness ==
    /\ pc = "close" /\ len \notin {-1, ec_reg_size} /\ ticks > 1
    /\ cpu_temp # 0 /\ buf[1] # 0 /\ buf[1] # cpu_temp

\* C12: when open() fails ec_worker returns an error at once, whatever the
\* Running Flag is: no read, no EC write of the loop in that tick, no later
\* tick, and the process exits with failure.
C12_OpenFailureFatal ==
    /\ [](failed = "open"
            => /\ Returned /\ ret = "err"
               /\ write_tick < ticks /\ len = 0 /\ wio = IoIdle
               /\ pc = "exited" => status = "failure")
    /\ [][failed = "open" => (ticks' = ticks /\ commanded' = commanded)]_vars

\* C12 witness: open() failed in the second tick with the Running Flag still
\* set, and the process has exited.
C12_Witness ==
    failed = "open" /\ global_running_flag /\ ticks > 1 /\ pc = "exited"

Dist(a, b) == IF a >= b THEN a - b ELSE b - a
SnapLevels == {0, 16, 30, 40, 65, 90, 100}

\* C13 as claimed: identify_duty(x) is a level L of 0, 16, 30, 40, 65, 90,
\* 100 with |x - L| <= 1 whenever there is one, and x otherwise, for x in
\* -1..101.
C13_SnapsWithinOne ==
    f_done => LET x == f_arg[1]
                  near == {L \in SnapLevels : Dist(x, L) <= 1}
              IN  IF near # {} THEN f_res \in near ELSE f_res = x

\* C13 as amended: identify_duty(x) is the level L of 16, 30, 40, 65, 90,
\* 100 with |x - L| <= 1 when there is one, 0 for x = 0, and x for every
\* other x: 1 and -1 are left as they are.
C13_SnapsWithinOneButZero ==
    f_done => LET x == f_arg[1]
                  near == {L \in SnapLevels \ {0} : Dist(x, L) <= 1}
              IN  IF near # {} THEN f_res \in near ELSE f_res = x

\* C13 witness: identify_duty(1) = 1.
C13_Witness == f_done /\ f_arg = <<1>> /\ f_res = 1

\* C14: when the table's target exceeds the current duty the result r has
\* currentDuty < r <= target; otherwise the result is the table's target
\* (0 whenever maxTemp <= 50).
C14_SmoothingSoftens ==
    f_done => LET fd == f_arg[3]
                  temp_max == Max(f_arg[1], f_arg[2])
                  target == ThresholdTarget(temp_max, identify_duty(fd))
              IN  /\ target > fd => (fd < f_res /\ f_res <= target)
                  /\ target <= fd => f_res = target
                  /\ temp_max <= 50 => f_res = 0

\* C14 witness: maxTemp 90 at duty 30 gives a result strictly between 30
\* and 65.
C14_Witness == f_done /\ f_arg = <<90, 0, 30>> /\ f_res > 30 /\ f_res < 65

\* C16 as claimed: calculate_fan_duty(b) is b * 100 / 255 rounded to the
\* nearest integer, 0 at 0, 100 at 255 and non-decreasing in b.
C16_DutyRounded ==
    f_done => LET b == f_arg[1]
              IN  /\ 2 * Dist(f_res * 255, b * 100) <= 255
                  /\ b = 0 => f_res = 0
                  /\ b = 255 => f_res = 100
                  /\ b < 255 => f_res <= calculate_fan_duty(b + 1)

\* C16 as amended: calculate_fan_duty(b) is b * 100 / 255 truncated to an
\* integer, 0 at 0, 100 at 255 and non-decreasing in b.
C16_DutyTruncated ==
    f_done => LET b == f_arg[1]
              IN  /\ f_res * 255 <= b * 100 /\ b * 100 < (f_res + 1) * 255
                  /\ b = 0 => f_res = 0
                  /\ b = 255 => f_res = 100
                  /\ b < 255 => f_res <= calculate_fan_duty(b + 1)

\* C16 witness: byte 165, which ec_write_fan_duty(65) writes, decodes to 64.
C16_Witness == f_done /\ f_arg = <<165>> /\ f_res = 64

Combined(q) == (q[1] * 256) + q[2]
RpmAfter(q) == calculate_fan_rpms((Combined(q) + 1) \div 256, (Combined(q) + 1) % 256)

\* C17 as claimed: rpm(0,0) = 0 and rpm strictly decreases as the combined
\* 16-bit value grows from 1 to 65535 (stated for each value and the next).
C17_RpmStrictlyDecreasing ==
    f_done => /\ Combined(f_arg) = 0 => f_res = 0
              /\ (Combined(f_arg) > 0 /\ Combined(f_arg) < 65535)
                    => f_res > RpmAfter(f_arg)

\* C17 as amended: rpm(0,0) = 0, rpm is positive for every combined value
\* above 0 and never increases as the combined value grows from 1 to 65535
\* (stated for each value and the next, which gives every pair a < b).
C17_RpmNonIncreasing ==
    f_done => /\ Combined(f_arg) = 0 => f_res = 0
              /\ Combined(f_arg) > 0 => f_res > 0
              /\ (Combined(f_arg) > 0 /\ Combined(f_arg) < 65535)
                    => f_res >= RpmAfter(f_arg)

\* C17 witness: the combined values 65534 and 65535 both give 32.
C17_Witness == f_done /\ f_arg = <<255, 254>> /\ f_res = 32 /\ RpmAfter(f_arg) = 32

\* an argument the claim calls invalid: neither -1 nor an integer in 0..100
InvalidArg(a) ==
    \/ a.kind \in {"numtail", "junk", "range"}
    \/ a.kind = "num" /\ (a.val < -1 \/ a.val > 100)

\* C15: with ec_init done, every invalid duty argument ends in an exit with
\* failure and without a byte written to the EC.
C15_InvalidRejected ==
    (pc = "exited" /\ args.init /\ InvalidArg(args))
        => /\ status = "failure"
           /\ wio = IoIdle
           /\ ec_duty_raw = 0

\* C18: the decision step goes on to ec_write_fan_duty(next_duty) exactly
\* when (next_duty # -1 and next_duty # auto_duty_val) or (next_duty = 0
\* and fan_duty # 0); auto_duty_val changes only after the write of a tick,
\* whatever the write returned, and is then that tick's next_duty.
C18_WriteIffChanged ==
    /\ [][(pc = "decide" /\ pc' # "decide")
            => /\ pc' \in {"write", "sleep"}
               /\ pc' = "write"
                    <=> \/ next_duty # -1 /\ next_duty # auto_duty_val
                        \/ next_duty = 0 /\ fan_duty # 0]_vars
    /\ [][(pc = "write" /\ pc' # "write")
            => commanded' = Append(commanded, next_duty)]_vars
    /\ [][auto_duty_val' # auto_duty_val
            => pc = "io" /\ write_tick = ticks /\ wio.step = "ret"]_vars
    /\ []((pc = "sleep" /\ write_tick = ticks) => auto_duty_val = next_duty)
    /\ []((pc = "sleep" /\ write_tick < ticks) => Len(commanded) < ticks)

\* C18 witness: the first tick wrote 0, and the second wrote 0 again because
\* the snapshot showed the fan running.
C18_Witness ==
    /\ pc = "sleep" /\ write_tick = ticks /\ commanded = <<0, 0>>
    /\ fan_duty # 0 /\ auto_duty_val = 0

\* the main flow is inside a transaction of ec_io_do: its command byte is
\* written and its last wait has not returned
InTransaction(io) == io.step \in {"wait2", "port", "wait3", "val", "wait4"}

\* the bytes a call of ec_io_do has written so far
BytesOut(io) == {i \in 1..Len(io.ev) : "port" \in DOMAIN io.ev[i]}

\* C19: while a transaction of ec_worker is between its command byte and
\* its last wait, ec_on_sigterm has written no byte to either port.
C19_NoInterleaving ==
    (pc = "io" /\ InTransaction(wio)) => BytesOut(h.io) = {}

LastWritten == commanded[Len(commanded)]

\* C20 as claimed: under a constant temperature a tick without a write is
\* followed by no write, the last tick of the scenario writes nothing, and
\* for maxTemp >= 85 and an initial duty below 65 the last written duty is
\* 65.
C20_SettlesBelow65 ==
    /\ [][(pc = "decide" /\ pc' = "write") => write_tick = ticks - 1]_vars
    /\ [](SettleEnd => write_tick < ticks)
    /\ []((SettleEnd /\ env.temp >= 85 /\ InitialDuty < 65)
            => (commanded # <<>> /\ LastWritten = 65))

\* C20 as amended: under a constant temperature a tick without a write is
\* followed by no write, the last tick of the scenario writes nothing, and
\* for maxTemp >= 85 and an initial duty below 64 the last written duty is
\* 65; from the initial duty 64 with maxTemp >= 86 nothing is written.
C20_SettlesBelow64 ==
    /\ [][(pc = "decide" /\ pc' = "write") => write_tick = ticks - 1]_vars
    /\ [](SettleEnd => write_tick < ticks)
    /\ []((SettleEnd /\ env.temp >= 85 /\ InitialDuty < 64)
            => (commanded # <<>> /\ LastWritten = 65))
    /\ []((env.temp >= 86 /\ InitialDuty = 64) => commanded = <<>>)

\* C20 witness: at 90 degrees from a stopped fan the loop has climbed to 65
\* in several writes and then stopped writing.
C20_Witness ==
    /\ SettleEnd /\ env = [temp |-> 90, raw0 |-> 0]
    /\ Len(commanded) > 2 /\ LastWritten = 65 /\ write_tick < ticks

====
